---- MODULE Spec2Model ----
(***************************************************************************)
(* Model of the interactive note finder of notepy                          *)
(* (notepy/cli/interactive_selection.py) and of the index lookup it calls  *)
(* (notepy/zettelkasten/sql.py, DBManager.list_notes).                     *)
(*                                                                         *)
(* Text is a sequence of one-character strings.  An optional value         *)
(* (Python None / SQL NULL) is a sequence of length 0, a present value x  *)
(* is <<x>>.                                                               *)
(***************************************************************************)
EXTENDS Integers, Sequences, FiniteSets, TLC

VARIABLES
    pc,                   \* "init" (constructed), "loop" (blocked in getch), "done"
    text,                 \* _main: text, the input buffer
    cursor_pos,           \* Interactive.cursor_pos
    pos,                  \* _main: pos, the selected row
    relative_start,       \* Interactive.relative_start, first visible result
    prev_relative_start,  \* Interactive.prev_relative_start
    result_list,          \* _main: result_list, rows <<title, zk_id>>
    LINES,                \* curses.LINES
    COLS,                 \* curses.COLS
    c,                    \* _main: c, the key last read by getch
    outcome,              \* how run() ended
    retval,               \* value returned by run(), None as <<>>
    term,                 \* terminal mode: cbreak, keypad, echo, window
    glyphs,               \* screen rows whose column 0 shows the pointer ">"
    shown_start,          \* self.relative_start when print_results last ran
    queried,              \* the last step called list_notes
    tables,               \* the index tables exist
    index,                \* the index content, notes in insertion order
    q,                    \* list_notes: the arguments of a direct call
    res                   \* list_notes: what the direct call produced

vars == <<pc, text, cursor_pos, pos, relative_start, prev_relative_start,
          result_list, LINES, COLS, c, outcome, retval, term, glyphs,
          shown_start,
          queried, tables, index, q, res>>

---------------------------------------------------------------------------
(* Bounds and program constants *)

POSITION_OFFSET == 2
MaxLines == 4
MaxCols == 3
MaxPats == 2
MinLines == 1
MinCols == 2
MaxText == 6
WideCols == 5

None == <<>>
Some(x) == <<x>>

Max(a, b) == IF a >= b THEN a ELSE b
Min(a, b) == IF a <= b THEN a ELSE b

---------------------------------------------------------------------------
(* Python str operations on sequences of characters *)

\* s[i:] with 0-based i >= 0
From(s, i) == SubSeq(s, i + 1, Len(s))
\* s[:i] with 0-based i >= 0
UpTo(s, i) == SubSeq(s, 1, Min(i, Len(s)))

\* pat occurs in s at 1-based position i
IsAt(s, i, pat) ==
    /\ i >= 1
    /\ i + Len(pat) - 1 <= Len(s)
    /\ SubSeq(s, i, i + Len(pat) - 1) = pat

RECURSIVE ReplaceFrom(_, _, _)
ReplaceFrom(s, old, i) ==
    IF i > Len(s) THEN <<>>
    ELSE IF IsAt(s, i, old) THEN ReplaceFrom(s, old, i + Len(old))
    ELSE <<s[i]>> \o ReplaceFrom(s, old, i + 1)

\* s.replace(old, "") for a non-empty old
Remove(s, old) == ReplaceFrom(s, old, 1)

RECURSIVE LStrip(_)
LStrip(s) == IF s # <<>> /\ Head(s) = " " THEN LStrip(Tail(s)) ELSE s

RECURSIVE RStrip(_)
RStrip(s) ==
    IF s # <<>> /\ s[Len(s)] = " " THEN RStrip(SubSeq(s, 1, Len(s) - 1)) ELSE s

\* s.strip()
Strip(s) == RStrip(LStrip(s))

RemovePrefix(s, p) == IF IsAt(s, 1, p) THEN SubSeq(s, Len(p) + 1, Len(s)) ELSE s
RemoveSuffix(s, p) ==
    IF IsAt(s, Len(s) - Len(p) + 1, p) THEN SubSeq(s, 1, Len(s) - Len(p)) ELSE s

\* the elements of a sequence, as a set
Range(s) == {s[i] : i \in 1..Len(s)}

---------------------------------------------------------------------------
(* Interactive.parse_text *)

\* end of the run of non-space characters starting at i: the first position
\* at or after i that is a space or past the end
RECURSIVE TagEnd(_, _)
TagEnd(s, i) == IF i > Len(s) \/ s[i] = " " THEN i ELSE TagEnd(s, i + 1)

\* re.findall(r"#[^ ]*", s)
RECURSIVE FindTagsFrom(_, _)
FindTagsFrom(s, i) ==
    IF i > Len(s) THEN <<>>
    ELSE IF s[i] = "#"
         THEN LET j == TagEnd(s, i + 1)
              IN  <<SubSeq(s, i, j - 1)>> \o FindTagsFrom(s, j)
         ELSE FindTagsFrom(s, i + 1)

\* first position k >= j where "]]" occurs, 0 when there is none
RECURSIVE CloseFrom(_, _)
CloseFrom(s, j) ==
    IF j + 1 > Len(s) THEN 0
    ELSE IF IsAt(s, j, <<"]", "]">>) THEN j ELSE CloseFrom(s, j + 1)

\* the search for links taking an unclosed "[[" up to the end of the text
\* as a link
RECURSIVE FindLinksFrom_unclosed(_, _)
FindLinksFrom_unclosed(s, i) ==
    IF i > Len(s) THEN <<>>
    ELSE IF IsAt(s, i, <<"[", "[">>)
         THEN LET k == CloseFrom(s, i + 2)
              IN  IF k = 0 THEN <<SubSeq(s, i, Len(s))>>
                  ELSE <<SubSeq(s, i, k + 1)>>
                       \o FindLinksFrom_unclosed(s, k + 2)
         ELSE FindLinksFrom_unclosed(s, i + 1)

\* re.findall(r"\[\[.*?\]\]", s)
RECURSIVE FindLinksFrom(_, _)
FindLinksFrom(s, i) ==
    IF i > Len(s) THEN <<>>
    ELSE IF IsAt(s, i, <<"[", "[">>)
         THEN LET k == CloseFrom(s, i + 2)
              IN  IF k = 0 THEN FindLinksFrom(s, i + 1)
                  ELSE <<SubSeq(s, i, k + 1)>> \o FindLinksFrom(s, k + 2)
         ELSE FindLinksFrom(s, i + 1)

\* for tok in toks: s = s.replace(tok, "")
RECURSIVE RemoveAll(_, _)
RemoveAll(s, toks) ==
    IF toks = <<>> THEN s ELSE RemoveAll(Remove(s, Head(toks)), Tail(toks))

TagPattern(tag) == <<"#", "%">> \o Tail(tag) \o <<"%">>
LinkPattern(link) ==
    <<"%">> \o RemoveSuffix(RemovePrefix(link, <<"[", "[">>), <<"]", "]">>)
            \o <<"%">>

parse_text(s) ==
    LET raw_tags  == FindTagsFrom(s, 1)
        raw_links == FindLinksFrom(s, 1)
        tags      == [i \in 1..Len(raw_tags) |-> TagPattern(raw_tags[i])]
        links     == [i \in 1..Len(raw_links) |-> LinkPattern(raw_links[i])]
    IN  [text  |-> Strip(RemoveAll(RemoveAll(s, raw_tags), raw_links)),
         tags  |-> IF tags # <<>> THEN Some(tags) ELSE None,
         links |-> IF links # <<>> THEN Some(links) ELSE None]

---------------------------------------------------------------------------
(* The index: sql.py.  A note is [zk_id, title, author, tags, links], the  *)
(* tags and links being the rows of the child tables for that zk_id.       *)

Columns == <<"title", "zk_id", "author", "tag", "link">>

\* _JOINED_ALL: zettelkasten LEFT JOIN tags LEFT JOIN links.  A note with no
\* tag (no link) gives one row whose tag (link) is NULL.
OrNull(vals) == IF vals = <<>> THEN <<None>> ELSE [i \in 1..Len(vals) |-> Some(vals[i])]

\* the joined rows of a note under inner joins: none for a note with no tag
\* or no link
NoteRows_inner_join(n) ==
    LET ts == [i \in 1..Len(n.tags) |-> Some(n.tags[i])]
        ls == [i \in 1..Len(n.links) |-> Some(n.links[i])]
    IN  [k \in 1..(Len(ts) * Len(ls)) |->
            [title  |-> Some(n.title),
             zk_id  |-> Some(n.zk_id),
             author |-> Some(n.author),
             tag    |-> ts[((k - 1) \div Len(ls)) + 1],
             link   |-> ls[((k - 1) % Len(ls)) + 1]]]

NoteRows(n) ==
    LET ts == OrNull(n.tags)
        ls == OrNull(n.links)
    IN  [k \in 1..(Len(ts) * Len(ls)) |->
            [title  |-> Some(n.title),
             zk_id  |-> Some(n.zk_id),
             author |-> Some(n.author),
             tag    |-> ts[((k - 1) \div Len(ls)) + 1],
             link   |-> ls[((k - 1) % Len(ls)) + 1]]]

RECURSIVE JoinedAll(_)
JoinedAll(notes) ==
    IF notes = <<>> THEN <<>> ELSE NoteRows(Head(notes)) \o JoinedAll(Tail(notes))

\* SQLite: value LIKE pattern, "%" any run of characters, "_" any one
RECURSIVE Like(_, _)
Like(p, s) ==
    IF p = <<>> THEN s = <<>>
    ELSE IF Head(p) = "%"
         THEN Like(Tail(p), s) \/ (s # <<>> /\ Like(p, Tail(s)))
    ELSE IF s = <<>> THEN FALSE
    ELSE IF Head(p) = "_" \/ Head(p) = Head(s) THEN Like(Tail(p), Tail(s))
    ELSE FALSE

\* SQL three-valued logic: "T", "F", "N" (NULL)
And3(a, b) == IF a = "F" \/ b = "F" THEN "F"
              ELSE IF a = "N" \/ b = "N" THEN "N" ELSE "T"
Or3(a, b) == IF a = "T" \/ b = "T" THEN "T"
             ELSE IF a = "N" \/ b = "N" THEN "N" ELSE "F"

IsNegated(el) == el # <<>> /\ Head(el) = "!"

\* a predicate group with the patterns written into the query text
RECURSIVE ColQuery_inline(_, _)
ColQuery_inline(col, pats) ==
    IF pats = <<>> THEN <<>>
    ELSE LET t == [kind |-> "TERM", col |-> col, neg |-> IsNegated(Head(pats)),
                   pat |-> Head(pats)]
         IN  IF Len(pats) = 1 THEN <<t>>
             ELSE <<t, [kind |-> "OR", col |-> "", neg |-> FALSE]>>
                  \o ColQuery_inline(col, Tail(pats))

\* one column's predicate group: f"{col} LIKE ?" / f"{col} NOT LIKE ?"
\* joined by " OR "
RECURSIVE ColQuery(_, _)
ColQuery(col, pats) ==
    IF pats = <<>> THEN <<>>
    ELSE LET t == [kind |-> "TERM", col |-> col, neg |-> IsNegated(Head(pats))]
         IN  IF Len(pats) = 1 THEN <<t>>
             ELSE <<t, [kind |-> "OR", col |-> "", neg |-> FALSE]>>
                  \o ColQuery(col, Tail(pats))

\* " AND ".join(columns_query), as the token sequence of the WHERE clause
RECURSIVE JoinAnd(_)
JoinAnd(groups) ==
    IF groups = <<>> THEN <<>>
    ELSE IF Len(groups) = 1 THEN Head(groups)
    ELSE Head(groups) \o <<[kind |-> "AND", col |-> "", neg |-> FALSE]>>
         \o JoinAnd(Tail(groups))

\* the groups of the populated columns, in the order of the loop over columns
RECURSIVE ColumnsQuery(_, _)
ColumnsQuery(filter, i) ==
    IF i > Len(Columns) THEN <<>>
    ELSE IF filter[Columns[i]] # None
         THEN <<ColQuery(Columns[i], filter[Columns[i]][1])>>
              \o ColumnsQuery(filter, i + 1)
         ELSE ColumnsQuery(filter, i + 1)

WhereQuery(filter) == JoinAnd(ColumnsQuery(filter, 1))

\* the payload with the negation marks left in the parameters
RECURSIVE Payload_keeps_mark(_, _)
Payload_keeps_mark(filter, i) ==
    IF i > Len(Columns) THEN <<>>
    ELSE IF filter[Columns[i]] # None
         THEN filter[Columns[i]][1] \o Payload_keeps_mark(filter, i + 1)
         ELSE Payload_keeps_mark(filter, i + 1)

\* payload.extend([el.removeprefix("!") for el in local_col])
RECURSIVE Payload(_, _)
Payload(filter, i) ==
    IF i > Len(Columns) THEN <<>>
    ELSE IF filter[Columns[i]] # None
         THEN LET pats == filter[Columns[i]][1]
              IN  [k \in 1..Len(pats) |-> RemovePrefix(pats[k], <<"!">>)]
                  \o Payload(filter, i + 1)
         ELSE Payload(filter, i + 1)

\* query = select_cols + query + where_query + sort_query: the parts of the
\* text that depend on the arguments
QueryText(filter) ==
    [where |-> WhereQuery(filter),
     sort  |-> IF filter.sort_by = None THEN None
               ELSE <<filter.sort_by[1],
                      IF filter.descending THEN "DESC" ELSE "ASC">>]

\* the WHERE clause parses: terms and operators alternate, a term first and last
WellFormed(toks) ==
    \/ toks = <<>>
    \/ /\ Len(toks) % 2 = 1
       /\ \A i \in 1..Len(toks) : (toks[i].kind = "TERM") <=> (i % 2 = 1)

\* the k-th term of the clause on a joined row; its parameter is payload[k]
TermValue(toks, payload, row, k) ==
    LET t == toks[2 * k - 1]
        v == row[t.col]
    IN  IF v = None THEN "N"
        ELSE IF Like(payload[k], v[1]) <=> ~t.neg THEN "T" ELSE "F"

\* SQL precedence: AND binds tighter than OR.  Value of the clause from the
\* k-th term on, acc being the value of the conjunction that term continues.
RECURSIVE EvalFrom(_, _, _, _, _)
EvalFrom(toks, payload, row, k, acc) ==
    LET n   == (Len(toks) + 1) \div 2
        cur == And3(acc, TermValue(toks, payload, row, k))
    IN  IF k = n THEN cur
        ELSE IF toks[2 * k].kind = "AND"
             THEN EvalFrom(toks, payload, row, k + 1, cur)
             ELSE Or3(cur, EvalFrom(toks, payload, row, k + 1, "T"))

Selected(toks, payload, row) ==
    toks = <<>> \/ EvalFrom(toks, payload, row, 1, "T") = "T"

\* SELECT without DISTINCT: every projected row is kept
Distinct_keeps_all(rows, seen) == rows

\* SELECT DISTINCT title, zk_id: the projected rows, duplicates dropped
RECURSIVE Distinct(_, _)
Distinct(rows, seen) ==
    IF rows = <<>> THEN <<>>
    ELSE IF Head(rows) \in seen THEN Distinct(Tail(rows), seen)
    ELSE <<Head(rows)>> \o Distinct(Tail(rows), seen \cup {Head(rows)})

RECURSIVE SelectRows(_, _, _)
SelectRows(rows, toks, payload) ==
    IF rows = <<>> THEN <<>>
    ELSE (IF Selected(toks, payload, Head(rows))
          THEN <<<<Head(rows).title[1], Head(rows).zk_id[1]>>>> ELSE <<>>)
         \o SelectRows(Tail(rows), toks, payload)

\* the characters of the index in the order of their codes (the BINARY
\* collation of SQLite)
Chars == <<"#", "1", "2", "3", "a", "b", "x">>
Code(ch) == CHOOSE k \in 1..Len(Chars) : Chars[k] = ch

\* a < b for two texts; zk_ids, stored as integers, are digit strings of one
\* length and compare as their numbers do
RECURSIVE Less(_, _)
Less(a, b) ==
    IF b = <<>> THEN FALSE
    ELSE IF a = <<>> THEN TRUE
    ELSE IF Head(a) # Head(b) THEN Code(Head(a)) < Code(Head(b))
    ELSE Less(Tail(a), Tail(b))

\* n goes before m under ORDER BY col ASC / DESC; rows with equal keys keep
\* the order in which the scan yields them
Before(n, m, col, desc) ==
    IF desc THEN Less(m[col], n[col]) ELSE Less(n[col], m[col])

\* the sorter: a stable insertion of n into the sorted sequence
RECURSIVE InsertSorted(_, _, _, _)
InsertSorted(sorted, n, col, desc) ==
    IF sorted = <<>> THEN <<n>>
    ELSE IF Before(n, Head(sorted), col, desc) THEN <<n>> \o sorted
    ELSE <<Head(sorted)>> \o InsertSorted(Tail(sorted), n, col, desc)

RECURSIVE SortNotes(_, _, _)
SortNotes(notes, col, desc) ==
    IF notes = <<>> THEN <<>>
    ELSE InsertSorted(SortNotes(SubSeq(notes, 1, Len(notes) - 1), col, desc),
                      notes[Len(notes)], col, desc)

\* the order in which the rows of the notes come out.  Without ORDER BY
\* (sort_by None) SQLite walks the primary-key index of the main table:
\* zk_id ascending.  With ORDER BY it scans the table in insertion order and
\* sorts on the one column; sort_by is a column of the main table.
ScanOrder(notes, sort_by, descending) ==
    IF sort_by = None THEN SortNotes(notes, "zk_id", FALSE)
    ELSE SortNotes(notes, sort_by[1], descending)

\* list_notes giving an empty list when the query cannot be run
list_notes_swallows_error(hasTables, notes, filter) ==
    LET toks == WhereQuery(filter)
    IN  IF ~hasTables \/ ~WellFormed(toks)
        THEN [ok |-> TRUE, rows |-> <<>>]
        ELSE [ok |-> TRUE,
              rows |-> Distinct(SelectRows(
                           JoinedAll(ScanOrder(notes, filter.sort_by,
                                               filter.descending)),
                           toks, Payload(filter, 1)), {})]

\* DBManager.list_notes with the default projection; filter holds the
\* arguments title, zk_id, author, tag, link, sort_by and descending.
\* ok = FALSE is DBManagerException (sqlite3.OperationalError: a missing
\* table, or a WHERE clause that does not parse).
list_notes(hasTables, notes, filter) ==
    LET toks == WhereQuery(filter)
    IN  IF ~hasTables \/ ~WellFormed(toks)
        THEN [ok |-> FALSE, rows |-> <<>>]
        ELSE [ok |-> TRUE,
              rows |-> Distinct(SelectRows(
                           JoinedAll(ScanOrder(notes, filter.sort_by,
                                               filter.descending)),
                           toks, Payload(filter, 1)), {})]

\* the defaults of the arguments
NoFilter == [title |-> None, zk_id |-> None, author |-> None,
             tag |-> None, link |-> None,
             sort_by |-> None, descending |-> TRUE]

\* Zettelkasten.list_notes as the finder calls it: title, tags, links
zk_list_notes(hasTables, notes, title, tags, links) ==
    list_notes(hasTables, notes,
               [NoFilter EXCEPT !.title = title, !.tag = tags, !.link = links])

---------------------------------------------------------------------------
(* The finder: interactive_selection.py, class Interactive *)

\* the characters a key press can insert
Keys == {"a", "b", "#"}

Key(kind, ch, lines, cols) ==
    [kind |-> kind, ch |-> ch, lines |-> lines, cols |-> cols]

\* Interactive.check_cursor_pos
check_cursor_pos(t, p) ==
    LET p1 == IF p < 0 THEN 0 ELSE p
    IN  IF p1 > Len(t) THEN Len(t) ELSE p1

\* catch_key, case curses.KEY_RIGHT, with the cursor a step too far
key_right_nowrap(same, t) ==
    [same EXCEPT !.cursor_pos = Min(cursor_pos + 1, Len(t) + 1)]

\* catch_key, case curses.KEY_RIGHT
key_right(same, t) ==
    [same EXCEPT !.cursor_pos = (cursor_pos + 1) % (Len(t) + 1)]

\* catch_key, case _, with the selection and the viewport kept
key_other_keeps_pos(same, k, t) ==
    [same EXCEPT
        !.text = UpTo(UpTo(t, cursor_pos) \o <<k.ch>> \o From(t, cursor_pos),
                      COLS - 1),
        !.cursor_pos = IF cursor_pos < COLS - 1
                       THEN cursor_pos + 1 ELSE cursor_pos]

\* catch_key, case _, without the cut of the text to the width
key_other_no_limit(same, k, t) ==
    [same EXCEPT
        !.text = UpTo(t, cursor_pos) \o <<k.ch>> \o From(t, cursor_pos),
        !.cursor_pos = IF cursor_pos < COLS - 1
                       THEN cursor_pos + 1 ELSE cursor_pos,
        !.pos = 0,
        !.relative_start = 0]

\* catch_key, case _: any other key is inserted as a character
key_other(same, k, t) ==
    [same EXCEPT
        !.text = UpTo(UpTo(t, cursor_pos) \o <<k.ch>> \o From(t, cursor_pos),
                      COLS - 1),
        !.cursor_pos = IF cursor_pos < COLS - 1
                       THEN cursor_pos + 1 ELSE cursor_pos,
        !.pos = 0,
        !.relative_start = 0]

\* Interactive.catch_key: the new text and pos, endit, redraw, and the
\* fields of self and of curses it assigns
catch_key(k, t, p) ==
    LET same == [text |-> t, pos |-> p, endit |-> FALSE, redraw |-> FALSE,
                 cursor_pos |-> cursor_pos, relative_start |-> relative_start,
                 LINES |-> LINES, COLS |-> COLS]
    IN  CASE k.kind = "ENTER" -> [same EXCEPT !.endit = TRUE]
          [] k.kind = "UP"    -> [same EXCEPT !.pos = p - 1]
          [] k.kind = "DOWN"  -> [same EXCEPT !.pos = p + 1]
          [] k.kind = "RESIZE" ->
                [same EXCEPT !.LINES = k.lines, !.COLS = k.cols, !.redraw = TRUE]
          [] k.kind = "BACKSPACE" ->
                LET cp == check_cursor_pos(t, cursor_pos - 1)
                    new_text == IF cursor_pos > 0
                                THEN UpTo(t, cp) \o From(t, cp + 1) ELSE t
                IN  [same EXCEPT !.cursor_pos = cp,
                                 !.text = new_text,
                                 !.pos = IF t # new_text THEN 0 ELSE p,
                                 !.relative_start =
                                     IF t # new_text THEN 0 ELSE relative_start]
          [] k.kind = "DC" ->
                LET new_text == IF cursor_pos <= Len(t)
                                THEN UpTo(t, cursor_pos) \o From(t, cursor_pos + 1)
                                ELSE t
                IN  [same EXCEPT !.text = new_text,
                                 !.pos = IF t # new_text THEN 0 ELSE p,
                                 !.relative_start =
                                     IF t # new_text THEN 0 ELSE relative_start]
          [] k.kind = "LEFT" ->
                [same EXCEPT !.cursor_pos = (cursor_pos - 1) % (Len(t) + 1)]
          [] k.kind = "RIGHT" -> key_right(same, t)
          [] OTHER -> key_other(same, k, t)

\* check_pos wrapping past the last result without moving the window
check_pos_wrap_keeps_viewport(p, results, rs, lines) ==
    LET length == Len(results)
        current_position == p - rs + POSITION_OFFSET
        rs1 == IF current_position > lines
               THEN p - lines + POSITION_OFFSET ELSE rs
    IN  IF p < 0
        THEN IF length >= lines - POSITION_OFFSET
             THEN [pos |-> length - 1, redraw |-> TRUE,
                   relative_start |-> length - (lines - POSITION_OFFSET)]
             ELSE [pos |-> length - 1, redraw |-> FALSE, relative_start |-> 0]
        ELSE IF p > length - 1
        THEN [pos |-> 0, redraw |-> TRUE, relative_start |-> rs1]
        ELSE IF p - rs1 >= lines - POSITION_OFFSET
        THEN [pos |-> p, redraw |-> TRUE, relative_start |-> rs1 + 1]
        ELSE IF p - rs1 < 0
        THEN [pos |-> p, redraw |-> TRUE, relative_start |-> rs1 - 1]
        ELSE [pos |-> p, redraw |-> FALSE, relative_start |-> rs1]

\* check_pos scrolling down by a whole window instead of one row
check_pos_page_scroll(p, results, rs, lines) ==
    LET length == Len(results)
        current_position == p - rs + POSITION_OFFSET
        rs1 == IF current_position > lines
               THEN p - lines + POSITION_OFFSET ELSE rs
    IN  IF p < 0
        THEN IF length >= lines - POSITION_OFFSET
             THEN [pos |-> length - 1, redraw |-> TRUE,
                   relative_start |-> length - (lines - POSITION_OFFSET)]
             ELSE [pos |-> length - 1, redraw |-> FALSE, relative_start |-> 0]
        ELSE IF p > length - 1
        THEN [pos |-> 0, redraw |-> TRUE, relative_start |-> 0]
        ELSE IF p - rs1 >= lines - POSITION_OFFSET
        THEN [pos |-> p, redraw |-> TRUE, relative_start |-> p]
        ELSE IF p - rs1 < 0
        THEN [pos |-> p, redraw |-> TRUE, relative_start |-> rs1 - 1]
        ELSE [pos |-> p, redraw |-> FALSE, relative_start |-> rs1]

\* Interactive.check_pos, rs being self.relative_start on entry
check_pos(p, results, rs, lines) ==
    LET length == Len(results)
        current_position == p - rs + POSITION_OFFSET
        rs1 == IF current_position > lines
               THEN p - lines + POSITION_OFFSET ELSE rs
    IN  IF p < 0
        THEN IF length >= lines - POSITION_OFFSET
             THEN [pos |-> length - 1, redraw |-> TRUE,
                   relative_start |-> length - (lines - POSITION_OFFSET)]
             ELSE [pos |-> length - 1, redraw |-> FALSE, relative_start |-> 0]
        ELSE IF p > length - 1
        THEN [pos |-> 0, redraw |-> TRUE, relative_start |-> 0]
        ELSE IF p - rs1 >= lines - POSITION_OFFSET
        THEN [pos |-> p, redraw |-> TRUE, relative_start |-> rs1 + 1]
        ELSE IF p - rs1 < 0
        THEN [pos |-> p, redraw |-> TRUE, relative_start |-> rs1 - 1]
        ELSE [pos |-> p, redraw |-> FALSE, relative_start |-> rs1]

\* window.addstr(y, 0, ...) and window.move(y, x) raise curses.error outside
\* the window
OnScreen(y, x, lines, cols) == 0 <= y /\ y < lines /\ 0 <= x /\ x < cols

\* Interactive.print_results: every result row is rewritten from column 0,
\* the template starting with blanks, so no pointer is left on these rows
print_results(g, lines) == g \ (POSITION_OFFSET .. lines - 1)

\* draw_pointer that leaves the old pointer on the screen
draw_pointer_no_erase(g, p, old_pos, prev_rs, rs, lines, cols) ==
    LET row == p - rs + POSITION_OFFSET
    IN  IF ~OnScreen(row, 0, lines, cols)
        THEN [ok |-> FALSE, glyphs |-> g, prev_relative_start |-> rs]
        ELSE [ok |-> TRUE, glyphs |-> g \cup {row}, prev_relative_start |-> rs]

\* Interactive.draw_pointer: ok = FALSE is curses.error
draw_pointer(g, p, old_pos, prev_rs, rs, lines, cols) ==
    LET cancel_pos == old_pos - prev_rs + POSITION_OFFSET
        row == p - rs + POSITION_OFFSET
        g1 == IF cancel_pos < lines THEN g \ {cancel_pos} ELSE g
    IN  IF cancel_pos < lines /\ ~OnScreen(cancel_pos, 0, lines, cols)
        THEN [ok |-> FALSE, glyphs |-> g, prev_relative_start |-> prev_rs]
        ELSE IF ~OnScreen(row, 0, lines, cols)
        THEN [ok |-> FALSE, glyphs |-> g1, prev_relative_start |-> rs]
        ELSE [ok |-> TRUE, glyphs |-> g1 \cup {row}, prev_relative_start |-> rs]

\* the results fetched again on a redraw only, not when the text changed
NeedsQuery_redraw_only(new_text, old_text, redraw_pos, redraw_key) ==
    redraw_pos \/ redraw_key

\* _main: the condition under which the results are fetched and painted again
NeedsQuery(new_text, old_text, redraw_pos, redraw_key) ==
    new_text # old_text \/ redraw_pos \/ redraw_key

\* the title pattern without its wildcards: the title is the text
TitlePattern_exact(parsed_text) == parsed_text

\* _main: the title pattern f"%{parsed_text}%"
TitlePattern(parsed_text) == <<"%">> \o parsed_text \o <<"%">>

\* _main: the lookup for the text typed so far
Lookup(hasTables, notes, t) ==
    LET parsed == parse_text(t)
    IN  zk_list_notes(hasTables, notes, Some(<<TitlePattern(parsed.text)>>),
                      parsed.tags, parsed.links)

\* _main: the arguments of that lookup
LookupArgs(t) ==
    LET parsed == parse_text(t)
    IN  [NoFilter EXCEPT !.title = Some(<<TitlePattern(parsed.text)>>),
                         !.tag = parsed.tags,
                         !.link = parsed.links]

\* the return of _main without the test of the key that ended the loop
ReturnValue_any_key(results, p, key) ==
    IF Len(results) > 0
    THEN Some(results[IF p >= 0 THEN p + 1 ELSE Len(results) + p + 1][2])
    ELSE None

\* the return of _main giving the title of the row, not its id
ReturnValue_title(results, p, key) ==
    IF Len(results) > 0 /\ key # "ESCAPE"
    THEN Some(results[IF p >= 0 THEN p + 1 ELSE Len(results) + p + 1][1])
    ELSE None

\* the return of _main giving an empty id when there is no result
ReturnValue_empty_id(results, p, key) ==
    IF key = "ESCAPE" THEN None
    ELSE IF Len(results) > 0
    THEN Some(results[IF p >= 0 THEN p + 1 ELSE Len(results) + p + 1][2])
    ELSE Some(<<>>)

\* _main: the value returned after the loop
ReturnValue(results, p, key) ==
    IF Len(results) > 0 /\ key # "ESCAPE"
    THEN Some(results[IF p >= 0 THEN p + 1 ELSE Len(results) + p + 1][2])
    ELSE None

\* the terminal as Interactive.__init__ leaves it (initscr)
TermInit == [cbreak |-> FALSE, keypad |-> FALSE, echo |-> TRUE, window |-> TRUE]
\* run: noecho, cbreak, keypad(True)
TermAcquire(t) == [t EXCEPT !.echo = FALSE, !.cbreak = TRUE, !.keypad = TRUE]
\* run: the finally block: nocbreak, keypad(False), echo, endwin
TermRestore(t) ==
    [t EXCEPT !.cbreak = FALSE, !.keypad = FALSE, !.echo = TRUE, !.window = FALSE]

---------------------------------------------------------------------------
(* Index contents and initial states *)

Txt1(a) == <<a>>
Txt2(a, b) == <<a, b>>

Note(id, title, tags, links) ==
    [zk_id |-> id, title |-> title, author |-> Txt1("x"),
     tags |-> tags, links |-> links]

\* Two indexes of three notes, each in the order in which the notes were
\* inserted; in IndexA that is not the order of the ids.
IndexA == << Note(Txt1("2"), Txt2("a", "b"), <<Txt2("#", "a")>>, <<>>),
             Note(Txt1("1"), Txt1("b"), <<Txt2("#", "a"), Txt2("#", "b")>>,
                  <<Txt1("a")>>),
             Note(Txt1("3"), Txt1("a"), <<>>, <<Txt1("b"), Txt2("a", "b")>>) >>

IndexB == << Note(Txt1("1"), Txt1("a"), <<Txt2("#", "b")>>, <<Txt1("a")>>),
             Note(Txt1("2"), Txt2("a", "a"), <<>>, <<>>),
             Note(Txt1("3"), Txt2("b", "a"), <<Txt2("#", "a")>>, <<>>) >>

Indexes == {IndexA, IndexB}

\* an index with a title of three characters
IndexC == << Note(Txt1("1"), <<"a", "b", "a">>, <<Txt2("#", "a")>>, <<>>),
             Note(Txt1("2"), Txt2("a", "b"), <<>>, <<>>),
             Note(Txt1("3"), Txt1("b"), <<>>, <<Txt1("a")>>) >>

NoResult == [ok |-> TRUE, rows |-> <<>>]

\* the state once Interactive.__init__ has returned
Init ==
    /\ pc = "init"
    /\ text = <<>>
    /\ cursor_pos = 0
    /\ pos = 0
    /\ relative_start = 0
    /\ prev_relative_start = 0
    /\ result_list = <<>>
    /\ LINES \in MinLines..MaxLines
    /\ COLS \in MinCols..MaxCols
    /\ c = "NONE"
    /\ outcome = "none"
    /\ retval = None
    /\ term = TermInit
    /\ glyphs = {}
    /\ shown_start = 0
    /\ queried = FALSE
    /\ tables \in BOOLEAN
    /\ index \in Indexes
    /\ q = NoFilter
    /\ res = NoResult

---------------------------------------------------------------------------
(* Interactive.run and Interactive._main *)

\* run() restoring the terminal after the loop, not in a finally block
Exit_no_finally(how, value, mode) ==
    /\ pc' = "done"
    /\ outcome' = how
    /\ retval' = value
    /\ term' = IF how \in {"committed", "cancelled"}
               THEN TermRestore(mode) ELSE mode

\* run() ends: the finally block has run, then the value is returned or the
\* exception propagates; mode is the terminal mode when the try block is left
Exit(how, value, mode) ==
    /\ pc' = "done"
    /\ outcome' = how
    /\ retval' = value
    /\ term' = TermRestore(mode)

\* run() up to the first getch of _main
Start ==
    /\ pc = "init"
    /\ LET lk == zk_list_notes(tables, index, Some(<<TitlePattern(<<>>)>>),
                               None, None)
           dp == draw_pointer(print_results({}, LINES), 0, 0,
                              prev_relative_start, relative_start, LINES, COLS)
       IN  /\ queried' = TRUE
           /\ text' = <<>>
           /\ UNCHANGED <<cursor_pos, relative_start, LINES, COLS, c,
                          tables, index, q, res>>
           /\ IF ~lk.ok
              THEN /\ Exit("lookup_error", None, TermAcquire(term))
                   /\ UNCHANGED <<pos, result_list, glyphs, prev_relative_start,
                                  shown_start>>
              ELSE /\ result_list' = lk.rows
                   /\ pos' = 0
                   /\ glyphs' = dp.glyphs
                   /\ shown_start' = relative_start
                   /\ prev_relative_start' = dp.prev_relative_start
                   /\ IF dp.ok
                      THEN /\ pc' = "loop"
                           /\ term' = TermAcquire(term)
                           /\ UNCHANGED <<outcome, retval>>
                      ELSE Exit("terminal_error", None, TermAcquire(term))

\* one pass of the while loop of _main for a key other than escape
Iterate(k) ==
    /\ pc = "loop"
    /\ c' = k.kind
    /\ UNCHANGED <<tables, index, q, res>>
    /\ LET old_pos == pos
           ck == catch_key(k, text, pos)
       IN  IF ck.endit
           THEN /\ Exit("committed", ReturnValue(result_list, ck.pos, k.kind),
                        term)
                /\ queried' = FALSE
                /\ UNCHANGED <<text, cursor_pos, pos, relative_start,
                               prev_relative_start, result_list, LINES, COLS,
                               glyphs, shown_start>>
           ELSE
           LET cp == check_pos(ck.pos, result_list, ck.relative_start, ck.LINES)
               need == NeedsQuery(ck.text, text, cp.redraw, ck.redraw)
               lk == Lookup(tables, index, ck.text)
               g0 == {r \in glyphs : r < ck.LINES}
               g1 == IF need THEN print_results(g0, ck.LINES) ELSE g0
               dp == draw_pointer(g1, cp.pos, old_pos, prev_relative_start,
                                  cp.relative_start, ck.LINES, ck.COLS)
           IN  /\ cursor_pos' = ck.cursor_pos
               /\ LINES' = ck.LINES
               /\ COLS' = ck.COLS
               /\ pos' = cp.pos
               /\ relative_start' = cp.relative_start
               /\ queried' = need
               /\ IF need /\ ~lk.ok
                  THEN /\ Exit("lookup_error", None, term)
                       /\ glyphs' = g0
                       /\ UNCHANGED shown_start
                       /\ UNCHANGED <<text, result_list, prev_relative_start>>
                  ELSE /\ text' = ck.text
                       /\ result_list' = IF need THEN lk.rows ELSE result_list
                       /\ glyphs' = dp.glyphs
                       /\ shown_start' = IF need THEN cp.relative_start
                                                 ELSE shown_start
                       /\ prev_relative_start' = dp.prev_relative_start
                       /\ IF dp.ok /\ OnScreen(0, ck.cursor_pos, ck.LINES, ck.COLS)
                          THEN UNCHANGED <<pc, outcome, retval, term>>
                          ELSE Exit("terminal_error", None, term)

KeyChar == \E ch \in Keys : Iterate(Key("CHAR", ch, LINES, COLS))
KeyBackspace == Iterate(Key("BACKSPACE", "", LINES, COLS))
KeyDelete == Iterate(Key("DC", "", LINES, COLS))
KeyLeft == Iterate(Key("LEFT", "", LINES, COLS))
KeyRight == Iterate(Key("RIGHT", "", LINES, COLS))
KeyUp == Iterate(Key("UP", "", LINES, COLS))
KeyDown == Iterate(Key("DOWN", "", LINES, COLS))
KeyEnter == Iterate(Key("ENTER", "", LINES, COLS))
KeyResize ==
    \E lines \in MinLines..MaxLines, cols \in MinCols..MaxCols :
        Iterate(Key("RESIZE", "", lines, cols))

\* getch returns escape: the while condition fails
KeyEscape ==
    /\ pc = "loop"
    /\ c' = "ESCAPE"
    /\ queried' = FALSE
    /\ Exit("cancelled", ReturnValue(result_list, pos, "ESCAPE"), term)
    /\ UNCHANGED <<text, cursor_pos, pos, relative_start, prev_relative_start,
                   result_list, LINES, COLS, glyphs,
                   shown_start, tables, index, q, res>>

\* Ctrl-C while the loop waits for a key: except KeyboardInterrupt: pass
Interrupt ==
    /\ pc = "loop"
    /\ queried' = FALSE
    /\ Exit("interrupted", None, term)
    /\ UNCHANGED <<text, cursor_pos, pos, relative_start, prev_relative_start,
                   result_list, LINES, COLS, c, glyphs,
                   shown_start, tables, index, q, res>>

\* DBManager.drop_tables, run by another command while the finder is open
DropTables ==
    /\ pc = "loop"
    /\ tables
    /\ tables' = FALSE
    /\ UNCHANGED <<pc, text, cursor_pos, pos, relative_start,
                   prev_relative_start, result_list, LINES, COLS, c, outcome,
                   retval, term, glyphs, shown_start, queried, index, q, res>>

Next ==
    \/ Start
    \/ KeyChar
    \/ KeyBackspace
    \/ KeyDelete
    \/ KeyLeft
    \/ KeyRight
    \/ KeyUp
    \/ KeyDown
    \/ KeyEnter
    \/ KeyResize
    \/ KeyEscape
    \/ Interrupt
    \/ DropTables

Spec == Init /\ [][Next]_vars

---------------------------------------------------------------------------
(* Direct calls of DBManager.list_notes, for every filter *)

\* the non-empty lists of at most MaxPats patterns taken from a set
PatLists(S) == UNION {[1..n -> S] : n \in 1..MaxPats}

Optional(S) == {None} \cup {Some(x) : x \in S}

TitlePats == {<<"%", "a", "%">>, <<"!", "%", "a", "%">>, <<"%", "c", "%">>}
IdPats == {<<"1">>}
AuthorPats == {<<"%", "x", "%">>}
TagPats == {<<"#", "%", "a", "%">>, <<"#", "%", "b", "%">>,
            <<"!", "#", "%", "a", "%">>}
LinkPats == {<<"%", "a", "%">>, <<"!", "%", "b", "%">>}

Filters ==
    [title  : Optional(PatLists(TitlePats)),
     zk_id  : Optional({<<p>> : p \in IdPats}),
     author : Optional({<<p>> : p \in AuthorPats}),
     tag    : Optional(PatLists(TagPats)),
     link   : Optional(PatLists(LinkPats)),
     sort_by : {None},
     descending : {TRUE}]

\* the calls with a sort column: the list command with --sort-by
SortColumns == {"title", "author", "zk_id"}

SortedCalls ==
    [title  : Optional({<<p>> : p \in TitlePats}),
     zk_id  : {None},
     author : {None},
     tag    : Optional({<<p>> : p \in TagPats}),
     link   : {None},
     sort_by : {Some(col) : col \in SortColumns},
     descending : BOOLEAN]

InitList ==
    /\ pc = "list"
    /\ text = <<>>
    /\ cursor_pos = 0
    /\ pos = 0
    /\ relative_start = 0
    /\ prev_relative_start = 0
    /\ result_list = <<>>
    /\ LINES = MaxLines
    /\ COLS = MaxCols
    /\ c = "NONE"
    /\ outcome = "none"
    /\ retval = None
    /\ term = TermInit
    /\ glyphs = {}
    /\ shown_start = 0
    /\ queried = FALSE
    /\ tables \in BOOLEAN
    /\ index \in Indexes
    /\ q = NoFilter
    /\ res = NoResult

\* a caller runs list_notes with a filter
CallListNotes ==
    /\ pc = "list"
    /\ \E f \in Filters :
        /\ q' = f
        /\ res' = list_notes(tables, index, f)
    /\ pc' = "returned"
    /\ UNCHANGED <<text, cursor_pos, pos, relative_start, prev_relative_start,
                   result_list, LINES, COLS, c, outcome, retval, term, glyphs,
                   shown_start,
                   queried, tables, index>>

\* a caller runs list_notes with a sort column
CallSorted ==
    /\ pc = "list"
    /\ \E f \in SortedCalls :
        /\ q' = f
        /\ res' = list_notes(tables, index, f)
    /\ pc' = "returned"
    /\ UNCHANGED <<text, cursor_pos, pos, relative_start, prev_relative_start,
                   result_list, LINES, COLS, c, outcome, retval, term, glyphs,
                   shown_start,
                   queried, tables, index>>

\* the lookup _main makes before the first key, the buffer being empty
InitialLookup ==
    /\ pc = "list"
    /\ q' = [NoFilter EXCEPT !.title = Some(<<TitlePattern(<<>>)>>)]
    /\ res' = zk_list_notes(tables, index, Some(<<TitlePattern(<<>>)>>),
                            None, None)
    /\ pc' = "returned"
    /\ UNCHANGED <<text, cursor_pos, pos, relative_start, prev_relative_start,
                   result_list, LINES, COLS, c, outcome, retval, term, glyphs,
                   shown_start,
                   queried, tables, index>>

NextList ==
    \/ CallListNotes
    \/ CallSorted
    \/ InitialLookup

SpecList == InitList /\ [][NextList]_vars

---------------------------------------------------------------------------
(* The compilation of a query text and its lookup, for every text *)

TextChars == {"a", " ", "#", "!"}

\* the texts of at most MaxText characters
Texts == UNION {[1..n -> TextChars] : n \in 0..MaxText}

InitQuery ==
    /\ pc = "query"
    /\ text \in Texts
    /\ cursor_pos = 0
    /\ pos = 0
    /\ relative_start = 0
    /\ prev_relative_start = 0
    /\ result_list = <<>>
    /\ LINES = MaxLines
    /\ COLS = MaxCols
    /\ c = "NONE"
    /\ outcome = "none"
    /\ retval = None
    /\ term = TermInit
    /\ glyphs = {}
    /\ shown_start = 0
    /\ queried = FALSE
    /\ tables = TRUE
    /\ index \in Indexes
    /\ q = NoFilter
    /\ res = NoResult

\* _main parses the text and looks the notes up
Requery ==
    /\ pc = "query"
    /\ q' = LookupArgs(text)
    /\ res' = Lookup(tables, index, text)
    /\ pc' = "looked_up"
    /\ UNCHANGED <<text, cursor_pos, pos, relative_start, prev_relative_start,
                   result_list, LINES, COLS, c, outcome, retval, term, glyphs,
                   shown_start,
                   queried, tables, index>>

NextQuery == Requery

SpecQuery == InitQuery /\ [][NextQuery]_vars

\* the same for the texts with link delimiters
ParseChars == {"a", " ", "#", "[", "]"}

ParseTexts == UNION {[1..n -> ParseChars] : n \in 0..MaxText}

InitParse ==
    /\ pc = "query"
    /\ text \in ParseTexts
    /\ cursor_pos = 0
    /\ pos = 0
    /\ relative_start = 0
    /\ prev_relative_start = 0
    /\ result_list = <<>>
    /\ LINES = MaxLines
    /\ COLS = MaxCols
    /\ c = "NONE"
    /\ outcome = "none"
    /\ retval = None
    /\ term = TermInit
    /\ glyphs = {}
    /\ shown_start = 0
    /\ queried = FALSE
    /\ tables = TRUE
    /\ index = IndexA
    /\ q = NoFilter
    /\ res = NoResult

SpecParse == InitParse /\ [][NextQuery]_vars

---------------------------------------------------------------------------
(* Typing into the finder in a terminal of WideCols columns that is not   *)
(* resized: characters and cursor-left                                     *)

InitType ==
    /\ pc = "init"
    /\ text = <<>>
    /\ cursor_pos = 0
    /\ pos = 0
    /\ relative_start = 0
    /\ prev_relative_start = 0
    /\ result_list = <<>>
    /\ LINES = MaxLines
    /\ COLS = WideCols
    /\ c = "NONE"
    /\ outcome = "none"
    /\ retval = None
    /\ term = TermInit
    /\ glyphs = {}
    /\ shown_start = 0
    /\ queried = FALSE
    /\ tables = TRUE
    /\ index \in {IndexB, IndexC}
    /\ q = NoFilter
    /\ res = NoResult

NextType ==
    \/ Start
    \/ KeyChar
    \/ KeyLeft

SpecType == InitType /\ [][NextType]_vars

---------------------------------------------------------------------------
(* Properties of the finder *)

\* the number of visible result rows
H == LINES - POSITION_OFFSET

\* C1: after every fully processed key event, a non-empty result list has
\* the selection inside it: 0 <= pos < len(result_list).
C1_SelectionInResults ==
    (pc = "loop" /\ result_list # <<>>) =>
        (0 <= pos /\ pos < Len(result_list))

\* a character was typed with the selection moved down; the new, shorter
\* list was fetched after the position check
C1_Witness ==
    /\ pc = "loop"
    /\ c = "CHAR"
    /\ queried
    /\ result_list # <<>>
    /\ Len(result_list) < Len(index)
    /\ pos = 0

\* C2: after every fully processed key event, resize included, the selection
\* of a non-empty result list is inside the visible window:
\* relative_start <= pos < relative_start + H.  The window is taken to have
\* at least one result row: no selection fits a window of none.
C2_SelectionVisible ==
    (pc = "loop" /\ result_list # <<>> /\ H >= 1) =>
        (relative_start <= pos /\ pos < relative_start + H)

\* C3: after every fully processed key event, resize included,
\* 0 <= relative_start <= max(0, len(result_list) - H).
C3_ViewportBounded ==
    pc = "loop" =>
        (0 <= relative_start /\ relative_start <= Max(0, Len(result_list) - H))

\* C4: after every fully processed key event, 0 <= cursor_pos <= len(text).
C4_CursorInBuffer ==
    pc = "loop" => (0 <= cursor_pos /\ cursor_pos <= Len(text))

\* a character was typed into a buffer that fills a terminal narrower than
\* the widest one, the cursor at the end of the buffer
C4_Witness ==
    /\ pc = "loop"
    /\ c = "CHAR"
    /\ COLS < MaxCols
    /\ Len(text) = COLS - 1
    /\ cursor_pos = Len(text)

\* C5: whenever the result list is empty after an event, pos = -1 and no
\* row shows the pointer glyph.
C5_EmptyResultsNoSelection ==
    (pc = "loop" /\ result_list = <<>>) => (pos = -1 /\ glyphs = {})

\* C6: a commit with a non-empty result list ends the finder and returns the
\* id of result_list[pos], result_list and pos being as the last processed
\* event left them; the id is one of the result list.
C6_CommitReturnsSelectedId ==
    (pc = "done" /\ outcome = "committed" /\ result_list # <<>>) =>
        /\ 0 <= pos /\ pos < Len(result_list)
        /\ retval = Some(result_list[pos + 1][2])
        /\ \E i \in 1..Len(result_list) : retval = Some(result_list[i][2])

\* a commit on a row other than the first
C6_Witness ==
    /\ pc = "done"
    /\ outcome = "committed"
    /\ Len(result_list) > 1
    /\ pos = Len(result_list) - 1
    /\ retval # None

C8_LookupErrorIsCaught ==
    [][(queried' /\ ~tables) =>
        /\ pc' = "loop"
        /\ outcome' = "none"
        /\ result_list' = <<>>
        /\ pos' = -1
      ]_vars

\* C10: however run ends (commit, cancel, keyboard interrupt, lookup error,
\* terminal error), the terminal is back in its original mode: cbreak off,
\* keypad off, echo on, window ended.
C10_TerminalRestored ==
    pc = "done" =>
        /\ outcome \in {"committed", "cancelled", "interrupted",
                        "lookup_error", "terminal_error"}
        /\ term = [cbreak |-> FALSE, keypad |-> FALSE, echo |-> TRUE,
                   window |-> FALSE]

\* run ended on an error of the terminal surface after keys were processed
C10_Witness ==
    /\ pc = "done"
    /\ outcome = "terminal_error"
    /\ c # "NONE"

\* C11: with N >= 1 results and the selection on the last one, whatever the
\* window, a select-down key gives pos = 0 and relative_start = 0.
C11_WrapDown ==
    [][(KeyDown /\ result_list # <<>> /\ pos = Len(result_list) - 1) =>
        (pos' = 0 /\ relative_start' = 0)
      ]_vars

\* select-down was pressed on the last of three results in a window of one
\* row, which showed that last result: the finder waits with the first
\* result selected and the list fetched and painted from the top
C11_Witness ==
    /\ pc = "loop"
    /\ c = "DOWN"
    /\ H = 1
    /\ Len(result_list) = 3
    /\ queried
    /\ pos = 0
    /\ relative_start = 0
    /\ glyphs = {POSITION_OFFSET}

\* C12: with the selection on the first of N >= 1 results and H >= 1 visible
\* rows, a select-up key gives pos = N - 1, relative_start = N - H when
\* N >= H and 0 when N < H, and in both cases marks a full redraw: the list
\* is fetched and painted again in that step.
C12_WrapUp ==
    [][(KeyUp /\ result_list # <<>> /\ pos = 0 /\ H >= 1) =>
        /\ pos' = Len(result_list) - 1
        /\ relative_start' = Max(0, Len(result_list) - H)
        /\ queried'
      ]_vars

---------------------------------------------------------------------------
(* Properties of list_notes *)

\* a filter of at most one pattern per column, none negated
Simple(f) ==
    \A i \in 1..Len(Columns) :
        f[Columns[i]] # None =>
            (Len(f[Columns[i]][1]) = 1 /\ ~IsNegated(f[Columns[i]][1][1]))

\* the values a note has in a column
ColumnValues(n, col) ==
    CASE col = "title" -> {n.title}
      [] col = "zk_id" -> {n.zk_id}
      [] col = "author" -> {n.author}
      [] col = "tag" -> Range(n.tags)
      [] col = "link" -> Range(n.links)

\* a note matches a simple filter: in every populated column one of its
\* values matches the pattern
RecordMatches(n, f) ==
    \A i \in 1..Len(Columns) :
        f[Columns[i]] # None =>
            \E v \in ColumnValues(n, Columns[i]) : Like(f[Columns[i]][1][1], v)

\* C9: without the index tables list_notes fails with DBManagerException
\* for every filter and returns no list; with the tables it returns a list
\* and no error, the empty list when no record matches.
C9_MissingTablesIsAnError ==
    pc = "returned" =>
        /\ ~tables => (~res.ok /\ res.rows = <<>>)
        /\ tables => res.ok
        /\ (tables /\ Simple(q)) =>
              (res.rows = <<>> <=>
                  ~\E i \in 1..Len(index) : RecordMatches(index[i], q))

\* with the tables, a filter on title and tag that no record matches gave
\* the empty list
C9_Witness ==
    /\ pc = "returned"
    /\ tables
    /\ q.title # None
    /\ q.tag # None
    /\ Simple(q)
    /\ res = [ok |-> TRUE, rows |-> <<>>]

\* the patterns of a list that are not negated, and the negated ones without
\* their mark
NonNegated(pats) == {pats[i] : i \in {j \in 1..Len(pats) : ~IsNegated(pats[j])}}
Negated(pats) ==
    {Tail(pats[i]) : i \in {j \in 1..Len(pats) : IsNegated(pats[j])}}

\* a note meets the patterns of one column: one of its values matches one of
\* the non-negated patterns, when there is one, and none of its values
\* matches a negated pattern
ColumnHolds(n, col, pats) ==
    /\ NonNegated(pats) # {} =>
          \E p \in NonNegated(pats) : \E v \in ColumnValues(n, col) : Like(p, v)
    /\ \A p \in Negated(pats) : \A v \in ColumnValues(n, col) : ~Like(p, v)

RecordSatisfies(n, f) ==
    \A i \in 1..Len(Columns) :
        f[Columns[i]] # None => ColumnHolds(n, Columns[i], f[Columns[i]][1])

\* the note is one of the returned rows
Returned(n, rows) == \E i \in 1..Len(rows) : rows[i][2] = n.zk_id

\* C13: a record is returned if and only if, in every populated column, it
\* matches one of the non-negated patterns (when there is one) and none of
\* the negated patterns.
C13_ColumnSemantics ==
    (pc = "returned" /\ tables) =>
        \A i \in 1..Len(index) :
            Returned(index[i], res.rows) <=> RecordSatisfies(index[i], q)

\* no pattern of the filter is negated
NoNegation(f) ==
    \A i \in 1..Len(Columns) :
        f[Columns[i]] # None => Negated(f[Columns[i]][1]) = {}

\* C14: the groups of different columns are AND-ed also when a column has
\* two or more patterns: with title patterns and no negation in the filter,
\* every returned record matches one of the title patterns.
C14_ColumnsAreAnded ==
    (pc = "returned" /\ tables /\ q.title # None /\ NoNegation(q)) =>
        \A i \in 1..Len(res.rows) :
            \E p \in NonNegated(q.title[1]) : Like(p, res.rows[i][1])

\* the filter is made of negated tag and link patterns only, at most one
\* per column
OnlyNegatedTagLink(f) ==
    /\ f.title = None /\ f.zk_id = None /\ f.author = None
    /\ f.tag # None \/ f.link # None
    /\ \A col \in {"tag", "link"} :
          f[col] # None => (Len(f[col][1]) = 1 /\ IsNegated(f[col][1][1]))

\* C15: negation is decided per record: under a negated tag (link) pattern
\* a record is returned if and only if none of its tags (links) matches the
\* pattern, a record with no tag (link) included.
C15_NegationPerRecord ==
    (pc = "returned" /\ tables /\ OnlyNegatedTagLink(q)) =>
        \A i \in 1..Len(index) :
            Returned(index[i], res.rows) <=> RecordSatisfies(index[i], q)

\* C16: the empty filter returns every record, a Simple filter returns the
\* records that match on its populated columns whatever their values in the
\* absent ones, and the lookup with the empty buffer returns every record.
C16_AbsentColumnMatchesAll ==
    (pc = "returned" /\ tables) =>
        /\ q = NoFilter => \A i \in 1..Len(index) : Returned(index[i], res.rows)
        /\ Simple(q) =>
              \A i \in 1..Len(index) :
                  Returned(index[i], res.rows) <=> RecordMatches(index[i], q)
        /\ q = [NoFilter EXCEPT !.title = Some(<<TitlePattern(<<>>)>>)] =>
              Len(res.rows) = Len(index)

\* the empty filter gave all three records of an index that has a record
\* with no tag and no link
C16_Witness ==
    /\ pc = "returned"
    /\ tables
    /\ q = NoFilter
    /\ \E i \in 1..Len(index) : index[i].tags = <<>> /\ index[i].links = <<>>
    /\ Len(res.rows) = Len(index)

\* C17: no record id appears twice in the returned <<title, zk_id>> rows.
C17_IdsAreDistinct ==
    pc = "returned" =>
        \A i, j \in 1..Len(res.rows) :
            res.rows[i][2] = res.rows[j][2] => i = j

\* a predicate that two joined rows of one record satisfy returned that
\* record once
C17_Witness ==
    /\ pc = "returned"
    /\ tables
    /\ q.author # None
    /\ \E i \in 1..Len(index) :
          /\ Len(NoteRows(index[i])) > 1
          /\ Returned(index[i], res.rows)
    /\ Len(res.rows) = Len(index)

\* the note a returned row was made from
NoteOf(row) == CHOOSE n \in Range(index) : n.zk_id = row[2]

\* C18: a second lookup with the same arguments on the same index gives the
\* same rows in the same order; the rows are in the order of the sort
\* column, rows with equal sort keys by zk_id ascending, and by zk_id
\* ascending when there is no sort column.
C18_StableOrder ==
    (pc = "returned" /\ tables) =>
        /\ res = list_notes(tables, index, q)
        /\ \A i, j \in 1..Len(res.rows) :
              i < j =>
                LET n == NoteOf(res.rows[i])
                    m == NoteOf(res.rows[j])
                IN  IF q.sort_by = None THEN Less(n.zk_id, m.zk_id)
                    ELSE \/ Before(n, m, q.sort_by[1], q.descending)
                         \/ /\ n[q.sort_by[1]] = m[q.sort_by[1]]
                            /\ Less(n.zk_id, m.zk_id)

\* a term of the WHERE clause on a value of the joined view: NULL never
\* satisfies it
RowTerm(p, v) ==
    /\ v # None
    /\ IF IsNegated(p) THEN ~Like(Tail(p), v[1]) ELSE Like(p, v[1])

\* col is the only populated column of the filter
OneColumn(f, col) ==
    \A i \in 1..Len(Columns) : (f[Columns[i]] # None) <=> (Columns[i] = col)

\* every populated column of the filter has one pattern
SinglePatterns(f) ==
    \A i \in 1..Len(Columns) :
        f[Columns[i]] # None => Len(f[Columns[i]][1]) = 1

\* C27: a pattern is negated exactly when it begins with "!", and is then
\* matched with NOT LIKE against the pattern without that one "!"; any
\* other pattern is matched with LIKE as it is; every parameter is bound to
\* the term of its own pattern.  So a record is returned when one of its
\* joined rows satisfies one of the terms of the only populated column, or
\* the term of every populated column when each has one pattern.
C27_NegationMarkAndBinding ==
    (pc = "returned" /\ tables) =>
        /\ \A k \in 1..Len(Columns) :
              OneColumn(q, Columns[k]) =>
                \A i \in 1..Len(index) :
                    Returned(index[i], res.rows) <=>
                        \E r \in Range(NoteRows(index[i])) :
                            \E p \in Range(q[Columns[k]][1]) :
                                RowTerm(p, r[Columns[k]])
        /\ SinglePatterns(q) =>
              \A i \in 1..Len(index) :
                  Returned(index[i], res.rows) <=>
                      \E r \in Range(NoteRows(index[i])) :
                          \A k \in 1..Len(Columns) :
                              q[Columns[k]] # None =>
                                  RowTerm(q[Columns[k]][1][1], r[Columns[k]])

\* a plain and a negated title pattern, in this order, returned some of the
\* records and not all
C27_Witness ==
    /\ pc = "returned"
    /\ tables
    /\ OneColumn(q, "title")
    /\ q.title = Some(<<<<"%", "c", "%">>, <<"!", "%", "a", "%">>>>)
    /\ res.rows # <<>>
    /\ Len(res.rows) < Len(index)

\* the filter with every pattern reduced to its negation mark
Canon(f) ==
    [col \in DOMAIN f |->
        IF col \in Range(Columns) /\ f[col] # None
        THEN Some([i \in 1..Len(f[col][1]) |->
                      IF IsNegated(f[col][1][i]) THEN <<"!">> ELSE <<>>])
        ELSE f[col]]

\* C28: the text of the query depends on the populated columns, the number
\* of patterns of each, their negation marks and the sort arguments only:
\* it is the text of the filter whose patterns are reduced to their marks.
C28_QueryTextIsParametric ==
    pc = "returned" => QueryText(q) = QueryText(Canon(q))

\* a call with typed characters in the patterns of two columns, one of them
\* negated
C28_Witness ==
    /\ pc = "returned"
    /\ tables
    /\ q.title # None /\ Len(q.title[1]) = 2
    /\ q.tag # None
    /\ \E i \in 1..Len(q.title[1]) : IsNegated(q.title[1][i])
    /\ q # Canon(q)
    /\ res.ok

---------------------------------------------------------------------------
(* Properties of the compilation of the query text *)

\* the text without its tag tokens, the maximal runs of non-space
\* characters that start with "#"
RECURSIVE WithoutTagTokens(_, _)
WithoutTagTokens(s, i) ==
    IF i > Len(s) THEN <<>>
    ELSE IF s[i] = "#" THEN WithoutTagTokens(s, TagEnd(s, i + 1))
    ELSE <<s[i]>> \o WithoutTagTokens(s, i + 1)

\* the tag tokens of the text, in order
TagTokens(s) == FindTagsFrom(s, 1)

\* C19: for a text of free text and tag tokens the title pattern is
\* %residual%, the residual being the text with every tag token removed,
\* trimmed; the tag patterns are #%body%, one per tag token #body; there is
\* no link pattern.
C19_CompileTags ==
    (pc = "looked_up" /\ "!" \notin Range(text)) =>
        LET toks == TagTokens(text)
        IN  /\ q.title = Some(<<<<"%">> \o Strip(WithoutTagTokens(text, 1))
                                        \o <<"%">>>>)
            /\ q.tag = IF toks = <<>> THEN None
                       ELSE Some([i \in 1..Len(toks) |->
                                    <<"#", "%">> \o Tail(toks[i]) \o <<"%">>])
            /\ q.link = None

\* the text is "!#" followed by a body of letters
IsNegatedTagText(s) ==
    /\ Len(s) >= 3
    /\ s[1] = "!" /\ s[2] = "#"
    /\ \A i \in 3..Len(s) : s[i] = "a"

\* C20: the text "!#body" compiles to the negated tag pattern "#%body%"
\* alone: the residual is empty, so the title is not constrained, and the
\* records returned are those with no tag matching the pattern.
C20_CompileNegatedTag ==
    (pc = "looked_up" /\ IsNegatedTagText(text)) =>
        /\ q.tag = Some(<<<<"!", "#", "%">> \o SubSeq(text, 3, Len(text))
                                          \o <<"%">>>>)
        /\ q.title \in {None, Some(<<<<"%", "%">>>>)}
        /\ q.link = None
        /\ \A i \in 1..Len(index) :
              Returned(index[i], res.rows) <=>
                  \A v \in Range(index[i].tags) :
                      ~Like(<<"#", "%">> \o SubSeq(text, 3, Len(text))
                                        \o <<"%">>, v)

\* the residual text of the compiled query: the title pattern without its
\* two wildcards
Residual == SubSeq(q.title[1][1], 2, Len(q.title[1][1]) - 1)

\* C21: the residual text holds no tag token and no link token: parse_text
\* applied to it returns no tags and no links.
C21_ResidualHasNoTokens ==
    pc = "looked_up" =>
        /\ parse_text(Residual).tags = None
        /\ parse_text(Residual).links = None

\* C22: every tag pattern comes from a token that starts with "#", and no
\* link pattern is "%%": every link token has a body between its
\* delimiters.
C22_TokensWellFormed ==
    pc = "looked_up" =>
        /\ q.tag # None =>
              \A i \in 1..Len(q.tag[1]) : q.tag[1][i][1] = "#"
        /\ q.link # None =>
              \A i \in 1..Len(q.link[1]) : q.link[1][i] # <<"%", "%">>

\* C23: the tag patterns and the link patterns of the filter hold no
\* duplicate.
C23_NoDuplicatePatterns ==
    pc = "looked_up" =>
        \A col \in {"tag", "link"} :
            q[col] # None =>
                \A i, j \in 1..Len(q[col][1]) :
                    q[col][1][i] = q[col][1][j] => i = j

\* the text has an opening "[[" with a closing "]]" after it
HasLinkToken(s) ==
    \E i, j \in 1..Len(s) :
        /\ IsAt(s, i, <<"[", "[">>)
        /\ IsAt(s, j, <<"]", "]">>)
        /\ j >= i + 2

\* C24: a text whose "[[" has no later "]]", or whose "]]" has no earlier
\* "[[", gives no link pattern, keeps the fragment unchanged in the residual
\* text (the text without its tag token, trimmed), and the lookup raises
\* no error.
C24_UnclosedLinkIsText ==
    (pc = "looked_up" /\ ~HasLinkToken(text) /\ Len(TagTokens(text)) <= 1) =>
        /\ q.link = None
        /\ Residual = Strip(WithoutTagTokens(text, 1))
        /\ res.ok

\* the text "[[a" was compiled: no link pattern, the title pattern "%[[a%"
C24_Witness ==
    /\ pc = "looked_up"
    /\ text = <<"[", "[", "a">>
    /\ q.link = None
    /\ q.title = Some(<<<<"%", "[", "[", "a", "%">>>>)
    /\ res.ok

---------------------------------------------------------------------------
(* Properties of typing *)

\* the ids of the rows of a result list
Ids(rows) == {rows[i][2] : i \in 1..Len(rows)}

\* the step inserts one character into a buffer of free text
FreeTextInsertion ==
    /\ KeyChar
    /\ pc' = "loop"
    /\ "#" \notin Range(text')
    /\ Len(text') = Len(text) + 1

\* C25: for a buffer of free text, the insertion of one more free-text
\* character at any cursor position never makes the result list longer.
C25_InsertNeverGrows ==
    [][FreeTextInsertion => Len(result_list') <= Len(result_list)]_vars

\* C25, start and end only: the insertion of a free-text character before
\* the first or after the last character of the buffer returns no record
\* that was not returned before.
C25_InsertAtEndsNeverGrows ==
    [][(FreeTextInsertion /\ cursor_pos \in {0, Len(text)}) =>
            Ids(result_list') \subseteq Ids(result_list)
      ]_vars

\* a character was inserted before the only character of the buffer and the
\* list, fetched again, lost records
C25_Witness ==
    /\ pc = "loop"
    /\ c = "CHAR"
    /\ queried
    /\ Len(text) = 2
    /\ "#" \notin Range(text)
    /\ cursor_pos = 1
    /\ result_list # <<>>
    /\ Len(result_list) < Len(index)

\* C26: while the index does not change, after every processed key the
\* result list is the lookup of the filter compiled from the current buffer,
\* never that of an older buffer; the lookup is part of the step that
\* processes the key.
C26_ResultsMatchBuffer ==
    (pc = "loop" /\ tables) =>
        result_list = Lookup(tables, index, text).rows

\* a backspace left one character in the buffer and the list was fetched
\* for it
C26_Witness ==
    /\ pc = "loop"
    /\ tables
    /\ c = "BACKSPACE"
    /\ queried
    /\ Len(text) = 1
    /\ result_list # <<>>
    /\ Len(result_list) < Len(index)

---------------------------------------------------------------------------
(* Properties of editing the buffer *)

\* C29: a printable key inserts its character at the cursor, the characters
\* before and after keeping their order, advances the cursor by one, selects
\* the first row with the viewport at 0 and fetches the list again, in every
\* state, also when the buffer fills the width of the terminal.
C29_PrintableInserts ==
    [][\A ch \in Keys :
        (Iterate(Key("CHAR", ch, LINES, COLS)) /\ pc' = "loop") =>
            /\ text' = UpTo(text, cursor_pos) \o <<ch>> \o From(text, cursor_pos)
            /\ cursor_pos' = cursor_pos + 1
            /\ pos' = 0
            /\ relative_start' = 0
            /\ queried'
      ]_vars

\* C30: backspace with the cursor after a character removes that character
\* and moves the cursor back by one, and at the start changes nothing;
\* delete with the cursor on a character removes that character and keeps
\* the cursor, and at the end changes nothing; the list is fetched again
\* only when the buffer changed.
C30_BackspaceAndDelete ==
    [][/\ (KeyBackspace /\ pc' = "loop") =>
            IF cursor_pos > 0
            THEN /\ text' = UpTo(text, cursor_pos - 1) \o From(text, cursor_pos)
                 /\ cursor_pos' = cursor_pos - 1
            ELSE /\ text' = text
                 /\ cursor_pos' = cursor_pos
       /\ (KeyDelete /\ pc' = "loop") =>
            /\ text' = IF cursor_pos < Len(text)
                       THEN UpTo(text, cursor_pos) \o From(text, cursor_pos + 1)
                       ELSE text
            /\ cursor_pos' = cursor_pos
       /\ ((KeyBackspace \/ KeyDelete) /\ pc' = "loop" /\ queried') =>
            text' # text
      ]_vars

---------------------------------------------------------------------------
(* Properties of the cursor keys and of the selection keys *)

\* the cursor after n cursor-right keys on a buffer of length len
RECURSIVE RightN(_, _, _)
RightN(cp, n, len) ==
    IF n = 0 THEN cp ELSE RightN((cp + 1) % (len + 1), n - 1, len)

\* C31: cursor-left gives (cursor - 1) mod (len(buffer) + 1), so 0 wraps to
\* len(buffer); cursor-right gives (cursor + 1) mod (len(buffer) + 1), so
\* len(buffer) wraps to 0; len(buffer) + 1 cursor-right keys in a row bring
\* the cursor back to where it was.
C31_CursorWraps ==
    [][/\ KeyLeft =>
            cursor_pos' = IF cursor_pos = 0 THEN Len(text) ELSE cursor_pos - 1
       /\ KeyRight =>
            /\ cursor_pos' = IF cursor_pos = Len(text) THEN 0 ELSE cursor_pos + 1
            /\ cursor_pos' = RightN(cursor_pos, 1, Len(text))
            /\ RightN(cursor_pos, Len(text) + 1, Len(text)) = cursor_pos
      ]_vars

\* cursor-right at the end of a buffer of two characters has wrapped to 0
C31_Witness ==
    /\ pc = "loop"
    /\ c = "RIGHT"
    /\ Len(text) = 2
    /\ cursor_pos = 0

\* the finder in a terminal that is never resized
NextFixed ==
    \/ Start
    \/ KeyChar
    \/ KeyBackspace
    \/ KeyDelete
    \/ KeyLeft
    \/ KeyRight
    \/ KeyUp
    \/ KeyDown
    \/ KeyEnter
    \/ KeyEscape
    \/ Interrupt
    \/ DropTables

SpecFixed == Init /\ [][NextFixed]_vars

\* C32: in a terminal of fixed size, a select-up or select-down key that
\* does not wrap moves the selection by one row and relative_start by at
\* most one row, and moves relative_start exactly when the new selection is
\* outside the visible window; with 3 results and H = 2, select-down from
\* pos = 1, relative_start = 0 gives pos = 2, relative_start = 1.
C32_SingleRowScroll ==
    [][/\ (KeyUp /\ pos >= 1) =>
            /\ pos' = pos - 1
            /\ relative_start' \in {relative_start - 1, relative_start}
            /\ (relative_start' # relative_start) <=> (pos' < relative_start)
       /\ (KeyDown /\ pos + 1 <= Len(result_list) - 1) =>
            /\ pos' = pos + 1
            /\ relative_start' \in {relative_start, relative_start + 1}
            /\ (relative_start' # relative_start) <=>
                   (pos' >= relative_start + H)
      ]_vars

\* the second of two select-down keys on 3 results with 2 visible rows has
\* scrolled the window by one row
C32_Witness ==
    /\ pc = "loop"
    /\ c = "DOWN"
    /\ Len(result_list) = 3
    /\ H = 2
    /\ pos = 2
    /\ relative_start = 1

\* the selection p is on one of the h visible rows of a window starting at rs
Visible(p, rs, h) == rs <= p /\ p < rs + h

\* C33: a resize key takes the number of visible rows from the new height
\* and always repaints the result rows; it leaves the buffer, the cursor and
\* the selection as they were, and moves relative_start only as far as
\* needed to keep the selection visible: not at all when the selection is
\* visible in the new window, and otherwise to the nearest start that shows
\* it.
C33_ResizeKeepsSelectionVisible ==
    [][(KeyResize /\ pc' = "loop") =>
        /\ text' = text
        /\ cursor_pos' = cursor_pos
        /\ pos' = pos
        /\ queried'
        /\ (LINES' - POSITION_OFFSET >= 1 /\ result_list' # <<>>) =>
              relative_start' =
                  IF pos < relative_start THEN pos
                  ELSE IF pos >= relative_start + (LINES' - POSITION_OFFSET)
                       THEN pos - (LINES' - POSITION_OFFSET) + 1
                       ELSE relative_start
      ]_vars

\* C36: a key that changes the buffer (a printable key, backspace, delete)
\* leaves pos = 0 and relative_start = 0; a backspace or delete that does
\* not change the buffer leaves pos and relative_start as they were.
C36_EditResetsSelection ==
    [][((KeyChar \/ KeyBackspace \/ KeyDelete) /\ pc' = "loop") =>
        IF text' # text
        THEN pos' = 0 /\ relative_start' = 0
        ELSE (KeyBackspace \/ KeyDelete) =>
                 (pos' = pos /\ relative_start' = relative_start)
      ]_vars

\* C37: an enter key always ends the loop, also when the result list is
\* empty; the finder then returns no id, as it does for a cancel, and from
\* the ended finder no further key is processed.
C37_CommitAlwaysEnds ==
    [][/\ KeyEnter =>
            /\ pc' = "done"
            /\ outcome' = "committed"
            /\ (result_list = <<>>) <=> (retval' = None)
       /\ KeyEscape => retval' = None
       /\ pc = "done" => UNCHANGED vars
      ]_vars

\* enter was pressed on an empty result list and the finder has ended
\* without an id
C37_Witness ==
    /\ pc = "done"
    /\ c = "ENTER"
    /\ outcome = "committed"
    /\ text # <<>>
    /\ result_list = <<>>
    /\ retval = None

\* C38: cursor-left and cursor-right keys leave the buffer, the result list,
\* the selection and relative_start as they were and fetch nothing;
\* select-up and select-down keys leave the buffer and the cursor as they
\* were.
C38_MoveKeysFrame ==
    [][/\ ((KeyLeft \/ KeyRight) /\ pc' = "loop") =>
            /\ text' = text
            /\ result_list' = result_list
            /\ pos' = pos
            /\ relative_start' = relative_start
            /\ ~queried'
       /\ ((KeyUp \/ KeyDown) /\ pc' = "loop") =>
            /\ text' = text
            /\ cursor_pos' = cursor_pos
      ]_vars

\* C39: in a terminal of fixed width the buffer never holds more than
\* COLS - 1 characters; a printable key on a buffer of COLS - 1 characters
\* drops the last character of the buffer, or the typed one when the cursor
\* is at the end, and never moves the cursor past COLS - 1.
C39_BufferFitsWidth ==
    [][/\ Len(text') <= COLS' - 1
       /\ cursor_pos' <= COLS' - 1
       /\ \A ch \in Keys :
            (Iterate(Key("CHAR", ch, LINES, COLS)) /\ pc' = "loop"
               /\ Len(text) = COLS - 1) =>
                text' = IF cursor_pos = Len(text) THEN text
                        ELSE UpTo(text, cursor_pos) \o <<ch>>
                             \o SubSeq(text, cursor_pos + 1, Len(text) - 1)
      ]_vars

\* a character typed at the end of a full buffer was dropped
C39_Witness ==
    /\ pc = "loop"
    /\ c = "CHAR"
    /\ Len(text) = COLS - 1
    /\ cursor_pos = COLS - 1
    /\ ~queried

\* C34: a select-up or select-down key that neither wraps nor moves
\* relative_start fetches nothing and repaints neither the result rows nor
\* the input line: the pointer is erased from the row of the old selection
\* and drawn on the row of the new one, and nothing else changes on screen.
C34_PointerOnlyMove ==
    [][(/\ \/ KeyUp /\ pos >= 1
           \/ KeyDown /\ pos + 1 <= Len(result_list) - 1
        /\ relative_start' = relative_start
        /\ pc' = "loop") =>
            /\ ~queried'
            /\ result_list' = result_list
            /\ text' = text
            /\ glyphs' = (glyphs \ {pos - relative_start + POSITION_OFFSET})
                            \cup {pos' - relative_start + POSITION_OFFSET}
      ]_vars

\* select-down has moved the pointer from the first result row to the
\* second without a lookup
C34_Witness ==
    /\ pc = "loop"
    /\ c = "DOWN"
    /\ pos = 1
    /\ relative_start = 0
    /\ ~queried
    /\ glyphs = {POSITION_OFFSET + 1}

---------------------------------------------------------------------------
(* Properties of the screen *)

\* C35: after every fully processed key, with a non-empty result list, the
\* screen agrees with the state: result row i shows results[relative_start
\* + i], so the rows were painted from the current relative_start, and the
\* only pointer is on the row that shows results[pos]; an enter key then
\* returns the id of the note displayed next to the pointer.  Also after a
\* printable key at the width limit while the list is scrolled.
C35_ScreenAgreesWithState ==
    (pc = "loop" /\ result_list # <<>>) =>
        /\ shown_start = relative_start
        /\ Visible(pos, shown_start, H)
        /\ glyphs = {pos - shown_start + POSITION_OFFSET}

====
